---- MODULE Spec2Model ----
(***************************************************************************)
(* weight_agent of agent.h: the n-tuple value function (v_value), the      *)
(* greedy one-step policy (take_action), the episode recorder              *)
(* (open_episode, board_history, reward_history) and the backward TD(0)    *)
(* pass (close_episode, adjust_table).                                     *)
(*                                                                         *)
(* Numbers.  A float is modelled by an integer count of 1/Scale units.     *)
(* alpha is AlphaDen-ths (alpha = 3 means 3/16), and Scale is AlphaDen to  *)
(* the power MaxAdjust, so that every product alpha * error of a run with  *)
(* at most MaxAdjust adjustments is a whole number of units: the model     *)
(* computes exactly what the float code computes on these dyadic values.   *)
(***************************************************************************)
EXTENDS Integers, Sequences, FiniteSets, TLC

\* ------------------------------------------------------------- bounds
\* longest trajectory a run records
MaxLen == 3
\* adjust_table calls a run performs in all (fixes Scale)
MaxAdjust == 3
\* denominator of the modelled learning rates
AlphaDen == 16
\* width of the modelled size_t / int in the loop start of close_episode
WordBits == 16

\* ---------------------------------------------------------- constants
\* the radix of the feature index (25*25*25*25 entries per table)
Radix == 25
\* std::numeric_limits<float>::max(), in units; far above every value a run reaches
FLT_MAX == 1073741824

RECURSIVE Pow(_, _)
Pow(b, e) == IF e = 0 THEN 1 ELSE b * Pow(b, e - 1)

Scale == Pow(AlphaDen, MaxAdjust)

\* int -> float conversion of a reward (r + val in take_action, line 170)
ToFloat(r) == r * Scale

\* --------------------------------------------------------------- boards
\* board::operator()(i): cell i of a board, i in 0..15
Cell(b, i) == b[i + 1]

\* a default-constructed board
ZeroBoard == [i \in 1..16 |-> 0]
\* the caller's board, and three afterstates: B1 and B2 share a row and three
\* columns, B3 shares no row or column with them and holds the largest rank
B0 == <<1, 0, 0, 0,  2, 0, 0, 0,  0, 0, 0, 0,  0, 0, 0, 0>>
B1 == <<1, 2, 0, 0,  0, 0, 0, 0,  0, 0, 0, 0,  0, 0, 0, 0>>
B2 == <<1, 2, 0, 0,  3, 0, 0, 0,  0, 0, 0, 0,  0, 0, 0, 0>>
B3 == <<0, 0, 0, 24,  0, 0, 5, 0,  0, 7, 0, 0,  24, 0, 0, 1>>

Boards == {B1, B2, B3}

\* index of one weight entry: table i of net, entry idx of that table
Entry(i, idx) == <<i, idx>>

\* the 4-cell feature index as agent.h writes it out
Idx(after, a, b, c, d) ==
    Cell(after, a)*25*25*25 + Cell(after, b)*25*25 + Cell(after, c)*25 + Cell(after, d)

\* the 8 entries of net that v_value reads and adjust_table writes for a board
Touched(after) ==
    { Entry(0, Idx(after, 0, 1, 2, 3)),   Entry(1, Idx(after, 4, 5, 6, 7)),
      Entry(2, Idx(after, 8, 9, 10, 11)), Entry(3, Idx(after, 12, 13, 14, 15)),
      Entry(4, Idx(after, 0, 4, 8, 12)),  Entry(5, Idx(after, 1, 5, 9, 13)),
      Entry(6, Idx(after, 2, 6, 10, 14)), Entry(7, Idx(after, 3, 7, 11, 15)) }

\* the part of the 8 tables of 25^4 floats that a run can address
Entries == UNION { Touched(b) : b \in Boards }

\* --------------------------------------------------------------- state
VARIABLES
    net,            \* std::vector<weight> net, restricted to Entries
    alpha,          \* float alpha, in AlphaDen-ths
    reward_history, \* std::vector<int> reward_history
    board_history,  \* std::vector<board> board_history
    before,         \* the caller's board, passed to take_action by reference
    act,            \* the member function that ran last
    ret,            \* what the last take_action returned
    slid,           \* what board::slide answered in the last take_action
    picked,         \* the slide results of the returned directions since open_episode
    adj_log,        \* the adjust_table calls of the last close_episode, in order
    loop_start,     \* the initial t of the last close_episode's loop
    adjusts         \* adjust_table calls so far

vars == <<net, alpha, reward_history, board_history, before, act, ret, slid,
          picked, adj_log, loop_start, adjusts>>

\* ------------------------------------------------------------- v_value
v_value(w, after) ==
      w[Entry(0, Idx(after, 0, 1, 2, 3))]
    + w[Entry(1, Idx(after, 4, 5, 6, 7))]
    + w[Entry(2, Idx(after, 8, 9, 10, 11))]
    + w[Entry(3, Idx(after, 12, 13, 14, 15))]
    + w[Entry(4, Idx(after, 0, 4, 8, 12))]
    + w[Entry(5, Idx(after, 1, 5, 9, 13))]
    + w[Entry(6, Idx(after, 2, 6, 10, 14))]
    + w[Entry(7, Idx(after, 3, 7, 11, 15))]

\* float product alpha * error, alpha in AlphaDen-ths
MulAlpha(a, error) == (a * error) \div AlphaDen

\* -------------------------------------------------------- adjust_table
\* adjust_table with a per-tuple error: each entry moves toward target / 8 by its
\* own error instead of by the whole-board error
adjust_table_per_tuple(w, a, after, target) ==
    [e \in DOMAIN w |->
        IF e \in Touched(after) THEN w[e] + MulAlpha(a, target - 8 * w[e]) ELSE w[e]]

\* adjust_table with the error taken as current - target
adjust_table_sign(w, a, after, target) ==
    LET adjust == MulAlpha(a, v_value(w, after) - target)
    IN  [e \in DOMAIN w |-> IF e \in Touched(after) THEN w[e] + adjust ELSE w[e]]

adjust_table(w, a, after, target) ==
    LET current == v_value(w, after)
        error   == target - current
        adjust  == MulAlpha(a, error)
    IN  [w EXCEPT ![Entry(0, Idx(after, 0, 1, 2, 3))]     = @ + adjust,
                  ![Entry(1, Idx(after, 4, 5, 6, 7))]     = @ + adjust,
                  ![Entry(2, Idx(after, 8, 9, 10, 11))]   = @ + adjust,
                  ![Entry(3, Idx(after, 12, 13, 14, 15))] = @ + adjust,
                  ![Entry(4, Idx(after, 0, 4, 8, 12))]    = @ + adjust,
                  ![Entry(5, Idx(after, 1, 5, 9, 13))]    = @ + adjust,
                  ![Entry(6, Idx(after, 2, 6, 10, 14))]   = @ + adjust,
                  ![Entry(7, Idx(after, 3, 7, 11, 15))]   = @ + adjust]

\* ------------------------------------------------------- close_episode
\* board_history.size()-2: the subtraction is unsigned and wraps
USub(a, b) == (a - b) % Pow(2, WordBits)

\* the conversion of that unsigned value to the int t
ToInt(u) == IF u >= Pow(2, WordBits - 1) THEN u - Pow(2, WordBits) ELSE u

\* one adjust_table call of close_episode as the log records it: the index t of
\* the afterstate, the indices of board_history and reward_history read to form
\* the call, the target, and net before and after it
LogEntry(t, bread, rread, target, pre, post) ==
    [t |-> t, bread |-> bread, rread |-> rread, target |-> target,
     pre |-> pre, post |-> post]

\* close_loop bootstrapping from the tables as they were on entry to
\* close_episode (log[1].pre) instead of the live ones
RECURSIVE close_loop_stale(_, _, _, _, _, _)
close_loop_stale(w, a, bh, rh, t, log) ==
    IF t >= 0
    THEN LET target == ToFloat(rh[t + 2]) + v_value(log[1].pre, bh[t + 2])
             w2     == adjust_table(w, a, bh[t + 1], target)
         IN  close_loop_stale(w2, a, bh, rh, t - 1,
                              Append(log, LogEntry(t, {t, t + 1}, {t + 1}, target, w, w2)))
    ELSE [net |-> w, log |-> log]

\* for(int t=board_history.size()-2;t>=0;t--) adjust_table(...)
RECURSIVE close_loop(_, _, _, _, _, _)
close_loop(w, a, bh, rh, t, log) ==
    IF t >= 0
    THEN LET target == ToFloat(rh[t + 2]) + v_value(w, bh[t + 2])
             w2     == adjust_table(w, a, bh[t + 1], target)
         IN  close_loop(w2, a, bh, rh, t - 1,
                        Append(log, LogEntry(t, {t, t + 1}, {t + 1}, target, w, w2)))
    ELSE [net |-> w, log |-> log]

\* what close_episode leaves: the tables and the two histories, with the
\* adjust_table calls it made and the int that board_history.size()-2 converts to
Closed(w, log, start, rh, bh) ==
    [net |-> w, log |-> log, start |-> start,
     reward_history |-> rh, board_history |-> bh]

\* close_episode without the check for an empty trajectory: the read of
\* board_history[size()-1] finds a board that an earlier episode left there
close_episode_no_empty_check(w, a, bh, rh) ==
    IF a = 0 THEN Closed(w, <<>>, ToInt(USub(Len(bh), 2)), rh, bh)
    ELSE IF Len(bh) = 0
         THEN Closed(adjust_table(w, a, B1, 0), <<>>, ToInt(USub(Len(bh), 2)), rh, bh)
    ELSE LET last  == Len(bh) - 1
             w1    == adjust_table(w, a, bh[last + 1], 0)
             start == ToInt(USub(Len(bh), 2))
             done  == close_loop(w1, a, bh, rh, start,
                                 <<LogEntry(last, {last}, {}, 0, w, w1)>>)
         IN  Closed(done.net, done.log, start, rh, bh)

\* close_episode with the last reward as the terminal target
close_episode_reward_target(w, a, bh, rh) ==
    IF Len(bh) = 0 THEN Closed(w, <<>>, ToInt(USub(Len(bh), 2)), rh, bh)
    ELSE IF a = 0 THEN Closed(w, <<>>, ToInt(USub(Len(bh), 2)), rh, bh)
    ELSE LET last   == Len(bh) - 1
             target == ToFloat(rh[last + 1])
             w1     == adjust_table(w, a, bh[last + 1], target)
             start  == ToInt(USub(Len(bh), 2))
             done   == close_loop(w1, a, bh, rh, start,
                                  <<LogEntry(last, {last}, {last}, target, w, w1)>>)
         IN  Closed(done.net, done.log, start, rh, bh)

\* close_episode that clears the trajectory once it has learnt from it
close_episode_clears(w, a, bh, rh) ==
    IF Len(bh) = 0 THEN Closed(w, <<>>, ToInt(USub(Len(bh), 2)), rh, bh)
    ELSE IF a = 0 THEN Closed(w, <<>>, ToInt(USub(Len(bh), 2)), <<>>, <<>>)
    ELSE LET last  == Len(bh) - 1
             w1    == adjust_table(w, a, bh[last + 1], 0)
             start == ToInt(USub(Len(bh), 2))
             done  == close_loop(w1, a, bh, rh, start,
                                 <<LogEntry(last, {last}, {}, 0, w, w1)>>)
         IN  Closed(done.net, done.log, start, <<>>, <<>>)

close_episode(w, a, bh, rh) ==
    IF Len(bh) = 0 THEN Closed(w, <<>>, ToInt(USub(Len(bh), 2)), rh, bh)
    ELSE IF a = 0 THEN Closed(w, <<>>, ToInt(USub(Len(bh), 2)), rh, bh)
    ELSE LET last  == Len(bh) - 1
             w1    == adjust_table(w, a, bh[last + 1], 0)
             start == ToInt(USub(Len(bh), 2))
             done  == close_loop(w1, a, bh, rh, start,
                                 <<LogEntry(last, {last}, {}, 0, w, w1)>>)
         IN  Closed(done.net, done.log, start, rh, bh)

\* open_episode: the two histories it leaves
open_episode == [reward_history |-> <<>>, board_history |-> <<>>]

\* --------------------------------------------------------- take_action
\* action::slide(op) and action(): opaque values the agent only constructs
ActionSlide(op) == [type |-> "slide", op |-> op]
ActionNone == [type |-> "none", op |-> -1]

\* board::slide on a copy of the board: the reward and the board it leaves;
\* an illegal slide answers -1 and leaves the copy as it was
Slide(r, after) == [r |-> r, after |-> after]
Illegal(b) == Slide(-1, b)

\* the loop's locals
Locals(best_move, max_reward, max_val, next_board) ==
    [best_move |-> best_move, max_reward |-> max_reward, max_val |-> max_val,
     next_board |-> next_board]

\* take_loop with >= for >: the last of several equal scores wins
RECURSIVE take_loop_last_wins(_, _, _, _)
take_loop_last_wins(w, res, op, st) ==
    IF op < 4
    THEN LET after == res[op].after
             r     == res[op].r
         IN  IF r = -1 THEN take_loop_last_wins(w, res, op + 1, st)
             ELSE LET val == v_value(w, after)
                  IN  IF ToFloat(r) + val >= ToFloat(st.max_reward) + st.max_val
                      THEN take_loop_last_wins(w, res, op + 1, Locals(op, r, val, after))
                      ELSE take_loop_last_wins(w, res, op + 1, st)
    ELSE st

\* for (int op=0;op<4;op++) { ... }, res[op] being what after.slide(op) answers
RECURSIVE take_loop(_, _, _, _)
take_loop(w, res, op, st) ==
    IF op < 4
    THEN LET after == res[op].after
             r     == res[op].r
         IN  IF r = -1 THEN take_loop(w, res, op + 1, st)
             ELSE LET val == v_value(w, after)
                  IN  IF ToFloat(r) + val > ToFloat(st.max_reward) + st.max_val
                      THEN take_loop(w, res, op + 1, Locals(op, r, val, after))
                      ELSE take_loop(w, res, op + 1, st)
    ELSE st

\* take_action sliding the caller's board itself, not a copy
take_action_in_place(w, b, res, rh, bh) ==
    LET st == take_loop(w, res, 0, Locals(-1, -1, -FLT_MAX, ZeroBoard))
    IN  [ret |-> ActionSlide(st.best_move),
         before |-> IF st.best_move # -1 THEN st.next_board ELSE b,
         reward_history |-> IF st.best_move # -1 THEN Append(rh, st.max_reward) ELSE rh,
         board_history  |-> IF st.best_move # -1 THEN Append(bh, st.next_board) ELSE bh]

\* take_action recording the turn without the best_move != -1 check
take_action_always_records(w, b, res, rh, bh) ==
    LET st == take_loop(w, res, 0, Locals(-1, -1, -FLT_MAX, ZeroBoard))
    IN  [ret |-> ActionSlide(st.best_move),
         before |-> b,
         reward_history |-> Append(rh, st.max_reward),
         board_history  |-> Append(bh, st.next_board)]

\* take_action: the action returned, the caller's board (a const reference, only
\* copied) and the histories it leaves
take_action(w, b, res, rh, bh) ==
    LET st == take_loop(w, res, 0, Locals(-1, -1, -FLT_MAX, ZeroBoard))
    IN  [ret |-> ActionSlide(st.best_move),
         before |-> b,
         reward_history |-> IF st.best_move # -1 THEN Append(rh, st.max_reward) ELSE rh,
         board_history  |-> IF st.best_move # -1 THEN Append(bh, st.next_board) ELSE bh]

\* ---------------------------------------------------------------- Init
\* the learning rates of a run, in AlphaDen-ths: 0, 1/16, 1/4, 1/2
Alphas == {0, 1, 4, 8}

\* initial weights, in whole units
InitWeights == {-1, 0, 1}

\* tables loaded at construction: three entries carry a weight, the rest are 0
\* (the row 1 2 0 0 of B1 and B2, the second row of B2, the first row of B3),
\* so that v_value is a for B1, a + b for B2 and c for B3
LoadedNet(a, b, c) ==
    [e \in Entries |->
        IF e = Entry(0, Idx(B1, 0, 1, 2, 3)) THEN a * Scale
        ELSE IF e = Entry(1, Idx(B2, 4, 5, 6, 7)) THEN b * Scale
        ELSE IF e = Entry(0, Idx(B3, 0, 1, 2, 3)) THEN c * Scale
        ELSE 0]

\* the tables of the runs that learn: fresh (init), and loaded ones
EpisodeNets == { LoadedNet(0, 0, 0), LoadedNet(1, 1, -1), LoadedNet(-1, 1, 1) }

\* the tables of the runs that only choose moves
PolicyNets == { LoadedNet(a, b, c) : a \in InitWeights, b \in InitWeights, c \in InitWeights }

Constructed ==
    /\ reward_history = <<>>
    /\ board_history = <<>>
    /\ before = B0
    /\ act = "constructed"
    /\ ret = ActionNone
    /\ slid = <<>>
    /\ picked = <<>>
    /\ adj_log = <<>>
    /\ loop_start = 0
    /\ adjusts = 0

Init ==
    /\ net \in EpisodeNets
    /\ alpha \in Alphas
    /\ Constructed

\* ------------------------------------------------------------- actions
\* what the four slides of one take_action can answer
LegalSlides == { Slide(0, B1), Slide(1, B2), Slide(0, B3) }
PolicySlides(b) == [0..3 -> {Illegal(b)} \cup LegalSlides]
\* the turns of the runs that learn: no legal direction, one, or two to choose from
EpisodeSlides(b) ==
    { [op \in 0..3 |-> Illegal(b)],
      [op \in 0..3 |-> IF op = 0 THEN Slide(0, B1) ELSE Illegal(b)],
      [op \in 0..3 |-> IF op = 1 THEN Slide(1, B2) ELSE Illegal(b)],
      [op \in 0..3 |-> IF op = 0 THEN Slide(0, B1)
                        ELSE IF op = 1 THEN Slide(1, B2) ELSE Illegal(b)] }

OpenEpisode ==
    /\ reward_history' = open_episode.reward_history
    /\ board_history' = open_episode.board_history
    /\ act' = "open_episode"
    /\ ret' = ActionNone
    /\ slid' = <<>>
    /\ picked' = <<>>
    /\ adj_log' = <<>>
    /\ loop_start' = 0
    /\ UNCHANGED <<net, alpha, before, adjusts>>

TakeAction(res) ==
    \E out \in {take_action(net, before, res, reward_history, board_history)} :
    LET legal == \E op \in 0..3 : res[op].r # -1
    IN  /\ legal => Len(board_history) < MaxLen
        /\ ret' = out.ret
        /\ before' = out.before
        /\ reward_history' = out.reward_history
        /\ board_history' = out.board_history
        /\ act' = "take_action"
        /\ slid' = res
        /\ picked' = IF legal
                     THEN Append(picked, IF out.ret.op \in 0..3 THEN res[out.ret.op]
                                         ELSE Illegal(before))
                     ELSE picked
        /\ adj_log' = <<>>
        /\ loop_start' = 0
        /\ UNCHANGED <<net, alpha, adjusts>>

CloseEpisode ==
    \E out \in {close_episode(net, alpha, board_history, reward_history)} :
        /\ adjusts + (IF alpha = 0 THEN 0 ELSE Len(board_history)) <= MaxAdjust
        /\ net' = out.net
        /\ adj_log' = out.log
        /\ loop_start' = out.start
        /\ adjusts' = adjusts + Len(out.log)
        /\ act' = "close_episode"
        /\ ret' = ActionNone
        /\ slid' = <<>>
        /\ reward_history' = out.reward_history
        /\ board_history' = out.board_history
        /\ UNCHANGED <<alpha, before, picked>>

\* episodes played and learnt from
Next ==
    \/ OpenEpisode
    \/ \E res \in EpisodeSlides(before) : TakeAction(res)
    \/ CloseEpisode

Spec == Init /\ [][Next]_vars

\* the policy alone: one turn per episode on tables that do not change, every
\* combination of slide answers
InitPolicy ==
    /\ net \in PolicyNets
    /\ alpha = 0
    /\ Constructed

NextPolicy ==
    \/ OpenEpisode
    \/ /\ board_history = <<>>
       /\ \E res \in PolicySlides(before) : TakeAction(res)

SpecPolicy == InitPolicy /\ [][NextPolicy]_vars

\* every product alpha * error of the run is a whole number of units
Exact ==
    \A k \in 1..Len(adj_log) :
        LET e == adj_log[k]
        IN  (alpha * (e.target - v_value(e.pre, board_history[e.t + 1]))) % AlphaDen = 0

\* ------------------------------------------------- the value function, restated
\* the 8 tuples: the 4 rows, then the 4 columns, of the 4 x 4 board
TupleCells(i) ==
    IF i < 4 THEN <<4*i, 4*i + 1, 4*i + 2, 4*i + 3>>
    ELSE <<i - 4, i, i + 4, i + 8>>

\* the base-25 number whose digits are the tuple's 4 ranks, first cell first
FeatureIndex(b, i) ==
    LET c == TupleCells(i)
    IN  ((Cell(b, c[1]) * Radix + Cell(b, c[2])) * Radix + Cell(b, c[3])) * Radix
        + Cell(b, c[4])

\* the entries of the tables that a board addresses, one per table
Addressed(b) == { Entry(i, FeatureIndex(b, i)) : i \in 0..7 }

RECURSIVE SumTo(_, _, _)
SumTo(w, b, i) == IF i < 0 THEN 0 ELSE w[Entry(i, FeatureIndex(b, i))] + SumTo(w, b, i - 1)

\* the value estimate: the sum of the 8 weights a board addresses
Evaluate(w, b) == SumTo(w, b, 7)

Abs(x) == IF x < 0 THEN -x ELSE x

\* the legal directions of the last take_action and their scores
LegalOps == { op \in 0..3 : slid[op].r # -1 }
Score(op) == slid[op].r * Scale + Evaluate(net, slid[op].after)

\* ------------------------------------------------------------------- C1
\* C1: when some direction is legal, take_action returns a legal direction whose
\* score (reward + value of the afterstate) is the greatest of the legal ones,
\* and of several directions with that score the one with the least op.
C1_GreedyFirstBest ==
    (act = "take_action" /\ LegalOps # {}) =>
        \E op \in LegalOps :
            /\ ret = ActionSlide(op)
            /\ \A o \in LegalOps : Score(o) <= Score(op)
            /\ \A o \in LegalOps : Score(o) = Score(op) => op <= o

\* two directions with different afterstates and rewards tie for the greatest
\* score, and the earlier one is returned
C1_Witness ==
    /\ act = "take_action"
    /\ \E o1 \in LegalOps, o2 \in LegalOps :
        /\ o1 < o2
        /\ slid[o1].r # slid[o2].r
        /\ Score(o1) = Score(o2)
        /\ \A o \in LegalOps : Score(o) <= Score(o1)
        /\ \E o \in LegalOps : o < o1 /\ Score(o) < Score(o1)
        /\ ret = ActionSlide(o1)

\* ------------------------------------------------------------------- C4
\* C4: when no direction is legal, take_action returns the null action and
\* extends neither history.
C4_NullWhenStuck ==
    [][(act' = "take_action" /\ \A op \in 0..3 : slid'[op].r = -1) =>
          /\ ret' = ActionNone
          /\ board_history' = board_history
          /\ reward_history' = reward_history]_vars

\* ------------------------------------------------------ close_episode, restated
\* alpha * x as a number of units; alpha is in AlphaDen-ths
Times(a, x) == (a * x) \div AlphaDen

\* afterstate s[t] and reward r[t] of the trajectory, t counted from 0
S(t) == board_history[t + 1]
R(t) == reward_history[t + 1]

\* the last close_episode learnt: non-empty trajectory, nonzero alpha
Learnt == act = "close_episode" /\ board_history # <<>> /\ alpha # 0

\* ------------------------------------------------------------------- C2
\* C2: a close_episode that learns from s[0..n-1], r[0..n-1] makes n adjustments,
\* of s[n-1], s[n-2], ..., s[0] in this order; the first is toward 0 and the one
\* of s[t] is toward r[t+1] + value(s[t+1]), the value read from the tables as
\* the adjustments of s[n-1], ..., s[t+1] have left them.
C2_BackwardLiveTargets ==
    Learnt =>
        LET n == Len(board_history)
        IN  /\ Len(adj_log) = n
            /\ \A k \in 1..n :
                /\ adj_log[k].t = n - k
                /\ k > 1 => adj_log[k].pre = adj_log[k - 1].post
                /\ adj_log[k].target =
                     IF k = 1 THEN 0
                     ELSE R(n - k + 1) * Scale + Evaluate(adj_log[k - 1].post, S(n - k + 1))
            /\ net = adj_log[n].post

\* a trajectory of 3 where the first adjustment changed the value of s[2] and the
\* second one the value of s[1], so that live and entry tables give other targets
C2_Witness ==
    /\ Learnt
    /\ Len(board_history) = 3
    /\ Len(adj_log) = 3
    /\ Evaluate(adj_log[1].post, S(2)) # Evaluate(adj_log[1].pre, S(2))
    /\ Evaluate(adj_log[2].post, S(1)) # Evaluate(adj_log[1].pre, S(1))
    /\ R(1) # R(2)

\* ------------------------------------------------------------------- C9
\* C9: each adjust_table(b, T) adds the one delta = alpha * (T - value(b)), taken
\* from the tables before the call, to the 8 entries b addresses (one per table)
\* and to no other entry, so that value(b) grows by 8 * delta.
C9_UniformDelta ==
    \A k \in 1..Len(adj_log) :
        LET e     == adj_log[k]
            b     == S(e.t)
            error == e.target - Evaluate(e.pre, b)
            delta == Times(alpha, error)
        IN  /\ delta * AlphaDen = alpha * error
            /\ Cardinality(Addressed(b)) = 8
            /\ \A i \in 0..7 : \E x \in Addressed(b) : x[1] = i
            /\ DOMAIN e.post = DOMAIN e.pre
            /\ \A x \in DOMAIN e.pre :
                e.post[x] = e.pre[x] + (IF x \in Addressed(b) THEN delta ELSE 0)
            /\ Evaluate(e.post, b) = Evaluate(e.pre, b) + 8 * delta

\* an adjustment with a nonzero delta on tables whose 8 addressed weights are not
\* all equal, another board's entries being in the tables too
C9_Witness ==
    \E k \in 1..Len(adj_log) :
        LET e == adj_log[k]
            b == S(e.t)
        IN  /\ Times(alpha, e.target - Evaluate(e.pre, b)) # 0
            /\ \E x \in Addressed(b), y \in Addressed(b) : e.pre[x] # e.pre[y]
            /\ \E x \in DOMAIN e.pre : x \notin Addressed(b) /\ e.pre[x] # 0

\* ------------------------------------------------------------------- C3
\* C3 as stated: after a close_episode that learns, the value of the terminal
\* afterstate is strictly nearer 0 than it was on entry (when it was not 0), and
\* each entry the terminal afterstate addresses has changed by alpha * (0 - value
\* on entry).
C3_AsStated ==
    Learnt =>
        LET n    == Len(board_history)
            term == S(n - 1)
            old  == adj_log[1].pre
            v0   == Evaluate(old, term)
        IN  /\ v0 # 0 => Abs(Evaluate(net, term)) < Abs(v0)
            /\ \A x \in Addressed(term) : net[x] - old[x] = Times(alpha, 0 - v0)

\* the afterstates before the terminal one that share a weight entry with it
SharesWithTerminal ==
    { t \in 0..(Len(board_history) - 2) :
        Addressed(S(t)) \cap Addressed(S(Len(board_history) - 1)) # {} }

\* C3 amended: the first adjustment of a close_episode that learns changes each
\* entry the terminal afterstate addresses by alpha * (0 - v0), v0 its value on
\* entry, so that its value becomes (1 - 8 alpha) * v0, which for v0 # 0 is
\* strictly nearer 0 exactly when 0 < alpha < 1/4; on a trajectory of length 1
\* close_episode returns with these weights.
C3_TerminalStep ==
    Learnt =>
        LET n    == Len(board_history)
            term == S(n - 1)
            old  == adj_log[1].pre
            new  == adj_log[1].post
            v0   == Evaluate(old, term)
        IN  /\ adj_log[1].t = n - 1
            /\ Times(alpha, 0 - v0) * AlphaDen = alpha * (0 - v0)
            /\ \A x \in Addressed(term) : new[x] - old[x] = Times(alpha, 0 - v0)
            /\ Evaluate(new, term) * AlphaDen = (AlphaDen - 8 * alpha) * v0
            /\ v0 # 0 =>
                 ((Abs(Evaluate(new, term)) < Abs(v0)) <=> (0 < alpha /\ 4 * alpha < AlphaDen))
            /\ n = 1 => net = new

\* a trajectory of 2 or more, a terminal value that was not 0 and moved toward 0
\* in the first adjustment, and a later adjustment that changed a shared entry
C3_Witness ==
    /\ Learnt
    /\ Len(board_history) >= 2
    /\ Evaluate(adj_log[1].pre, S(Len(board_history) - 1)) # 0
    /\ Abs(Evaluate(adj_log[1].post, S(Len(board_history) - 1)))
         < Abs(Evaluate(adj_log[1].pre, S(Len(board_history) - 1)))
    /\ SharesWithTerminal # {}
    /\ \E x \in Addressed(S(Len(board_history) - 1)) : net[x] # adj_log[1].post[x]

\* ------------------------------------------------------------------- C5
\* C5: a close_episode on an empty trajectory, or with alpha = 0, leaves every
\* entry of every table as it was.
C5_NoLearningNoChange ==
    [][(act' = "close_episode" /\ (board_history = <<>> \/ alpha = 0)) => net' = net]_vars

\* close_episode ran with alpha = 0 on a trajectory whose terminal value is not
\* 0, or with a nonzero alpha on an empty trajectory and tables that are not 0
C5_Witness ==
    /\ act = "close_episode"
    /\ \/ /\ alpha = 0
          /\ board_history # <<>>
          /\ Evaluate(net, S(Len(board_history) - 1)) # 0
       \/ /\ alpha # 0
          /\ board_history = <<>>
          /\ Evaluate(net, B1) # 0

\* ------------------------------------------------------------------- C6
\* C6: on a trajectory of length 1 a close_episode that learns makes one
\* adjustment, of s[0] toward 0, reads no index but 0 of either history, and
\* its loop, whose first t is size()-2 converted to int, runs no iteration.
C6_SingleTurn ==
    (Learnt /\ Len(board_history) = 1) =>
        /\ Len(adj_log) = 1
        /\ adj_log[1].t = 0
        /\ adj_log[1].target = 0
        /\ adj_log[1].bread \subseteq {0}
        /\ adj_log[1].rread \subseteq {0}
        /\ loop_start = -1
        /\ net = adj_log[1].post

\* a trajectory of length 1 with a nonzero reward, learnt from, tables changed
C6_Witness ==
    /\ Learnt
    /\ Len(board_history) = 1
    /\ R(0) # 0
    /\ net # adj_log[1].pre

\* ------------------------------------------------------------------- C7
IsPrefix(s, t) == Len(s) <= Len(t) /\ \A i \in 1..Len(s) : s[i] = t[i]

\* C7: open_episode empties both histories; close_episode leaves both as they
\* were; only open_episode drops a recorded pair; and a close_episode that
\* learns adjusts every afterstate recorded since the last open_episode.
C7_TrajectoryLifetime ==
    [][/\ act' = "open_episode" => (board_history' = <<>> /\ reward_history' = <<>>)
       /\ act' = "close_episode" =>
            /\ board_history' = board_history
            /\ reward_history' = reward_history
            /\ (board_history # <<>> /\ alpha # 0) =>
                 /\ { adj_log'[k].t : k \in 1..Len(adj_log') } = 0..(Len(picked) - 1)
                 /\ \A i \in 1..Len(picked) : board_history[i] = picked[i].after
       /\ act' # "open_episode" =>
            /\ IsPrefix(board_history, board_history')
            /\ IsPrefix(reward_history, reward_history')]_vars

\* a close_episode has learnt from a trajectory of 2 or more, which is still there
C7_Witness ==
    /\ Learnt
    /\ Len(board_history) >= 2
    /\ Len(reward_history) = Len(board_history)
    /\ Len(adj_log) = Len(board_history)

\* ------------------------------------------------------------------- C8
\* C8: take_action changes neither the caller's board nor the tables nor alpha,
\* and the tables change in no step but one of close_episode.
C8_TakeActionFrame ==
    [][/\ act' = "take_action" => (before' = before /\ net' = net /\ alpha' = alpha)
       /\ net' # net => act' = "close_episode"]_vars

\* take_action returned a direction whose afterstate differs from the caller's
\* board and recorded it
C8_Witness ==
    /\ act = "take_action"
    /\ ret.op \in 0..3
    /\ slid[ret.op].after # before
    /\ board_history # <<>>
    /\ board_history[Len(board_history)] = slid[ret.op].after

\* ------------------------------------------------------------------ C10
\* C10: both histories have the length k, the number of take_action calls since
\* the last open_episode that found a legal direction, and their i-th entries are
\* the afterstate and the reward that the slide in the direction returned by the
\* i-th such call answered.
C10_HistoriesRecordTurns ==
    /\ Len(board_history) = Len(picked)
    /\ Len(reward_history) = Len(picked)
    /\ \A i \in 1..Len(picked) :
        /\ picked[i].r # -1
        /\ board_history[i] = picked[i].after
        /\ reward_history[i] = picked[i].r

\* three turns recorded, the last returning direction 1, after a call that found
\* no legal direction would have left the histories alone
C10_Witness ==
    /\ act = "take_action"
    /\ Len(picked) = 3
    /\ ret = ActionSlide(1)
    /\ picked[1] # picked[2]
    /\ picked[3] = slid[1]

====
